---- MODULE Spec2Model ----
(***************************************************************************)
(* Model of tracker.py: the price tracker's main loop over PRODUCTS, the   *)
(* selector-chain price extraction, the text history file and the e-mail   *)
(* alert.  Prices are floats in the program; here a float is the integer   *)
(* number of hundredths it denotes (all modelled texts have at most two    *)
(* decimals), and every text is a sequence of one-character strings, so    *)
(* that formatting and parsing are computed character by character.        *)
(***************************************************************************)
EXTENDS Integers, Sequences, FiniteSets, TLC

(* ---------------------------- bounds ----------------------------------- *)
NumProducts == 2
MaxRuns == 2
MaxLines == 4

(* ---------------------------- texts ------------------------------------ *)
\* A value of the program: a float (in hundredths), None, or a raised
\* exception, as a record so that any two values can be compared.
Float(n) == [tag |-> "float", val |-> n]

Raised(e) == [tag |-> e, val |-> 0]

None == [tag |-> "None", val |-> 0]

IsFloat(r) == r.tag = "float"

ValueError == Raised("ValueError")

IndexError == Raised("IndexError")

OSError == Raised("OSError")

Digits == <<"0", "1", "2", "3", "4", "5", "6", "7", "8", "9">>

IsDigit(c) == \E d \in 1..10 : Digits[d] = c

DigitVal(c) == (CHOOSE d \in 1..10 : Digits[d] = c) - 1

IsSpace(c) == c = " "

\* str.replace(old, "") for a one-character old.
Remove(s, old) == SelectSeq(s, LAMBDA c : c # old)

\* str.replace(old, new) for one-character old and new.
Replace(s, old, new) == [i \in 1..Len(s) |-> IF s[i] = old THEN new ELSE s[i]]

\* str.split()[0]: the first whitespace-delimited token; IndexError when
\* the text holds no token at all.
SplitFirst(s) ==
    LET inked == {i \in 1..Len(s) : ~IsSpace(s[i])}
        start == CHOOSE i \in inked : \A j \in inked : i <= j
        stops == {i \in (start + 1)..(Len(s) + 1) : i = Len(s) + 1 \/ IsSpace(s[i])}
        stop == CHOOSE i \in stops : \A j \in stops : i <= j
    IN IF inked = {} THEN [tag |-> "IndexError", tok |-> <<>>]
       ELSE [tag |-> "str", tok |-> SubSeq(s, start, stop - 1)]

RECURSIVE NumVal(_, _)
\* The number the first n digits of s denote.
NumVal(s, n) == IF n = 0 THEN 0 ELSE 10 * NumVal(s, n - 1) + DigitVal(s[n])

AllDigits(s) == \A i \in 1..Len(s) : IsDigit(s[i])

DotAt(s) == {i \in 1..Len(s) : s[i] = "."}

\* Hundredths denoted by the fraction digits f (at most two in the model).
FracVal(f) ==
    IF Len(f) = 0 THEN 0
    ELSE IF Len(f) = 1 THEN 10 * NumVal(f, 1)
    ELSE NumVal(f, 2)

\* float(text) on an unsigned token: digits, at most one ".", digits, with
\* at least one digit overall; anything else raises ValueError.
UnsignedFloat(s) ==
    IF Cardinality(DotAt(s)) > 1 THEN ValueError
    ELSE IF DotAt(s) = {} THEN
        IF s # <<>> /\ AllDigits(s) THEN Float(100 * NumVal(s, Len(s))) ELSE ValueError
    ELSE LET d == CHOOSE i \in DotAt(s) : TRUE
             ip == SubSeq(s, 1, d - 1)
             fp == SubSeq(s, d + 1, Len(s))
         IN IF AllDigits(ip) /\ AllDigits(fp) /\ Len(ip) + Len(fp) > 0
            THEN Float(100 * NumVal(ip, Len(ip)) + FracVal(fp))
            ELSE ValueError

\* float(text): optional sign, then an unsigned float.
ParseFloat(s) ==
    IF s # <<>> /\ Head(s) \in {"-", "+"} THEN
        LET v == UnsignedFloat(Tail(s))
        IN IF ~IsFloat(v) THEN ValueError
           ELSE IF Head(s) = "-" THEN Float(0 - v.val) ELSE v
    ELSE UnsignedFloat(s)

RECURSIVE NatStr(_)
NatStr(n) == IF n < 10 THEN <<Digits[n + 1]>> ELSE NatStr(n \div 10) \o <<Digits[(n % 10) + 1]>>

\* str(float): shortest repr, always with a fraction part ("90.0", "89.99").
FloatStr(v) ==
    LET a == IF v < 0 THEN 0 - v ELSE v
        ip == a \div 100
        fr == a % 100
        fs == IF fr % 10 = 0 THEN <<Digits[(fr \div 10) + 1]>>
              ELSE <<Digits[(fr \div 10) + 1], Digits[(fr % 10) + 1]>>
    IN (IF v < 0 THEN <<"-">> ELSE <<>>) \o NatStr(ip) \o <<".">> \o fs

(* ---------------------------- configuration ---------------------------- *)
AllProducts ==
    <<"Lemforder 3387501", "Lemforder 3557301", "Lemforder 3557401", "HITACHI 2502195">>

\* The first NumProducts entries of the configured list.
PRODUCTS == SubSeq(AllProducts, 1, NumProducts)

(* ---------------------------- pages ------------------------------------ *)
\* What one selector finds: no element, or an element with its stripped text.
NoEl == [el |-> FALSE, text |-> <<>>]

El(t) == [el |-> TRUE, text |-> t]

Text90 == <<"9", "0", " ", "€">>

Text8999 == <<"8", "9", ",", "9", "9", " ", "€">>

TextThousands == <<"1", ".", "2", "3", "4", ",", "5", "6", " ", "€">>

TextZero == <<"0", " ", "€">>

TextNegative == <<"-", "5", " ", "€">>

TextNotNumeric == <<"n", "/", "a">>

TextSymbolOnly == <<"€">>

\* A page is what the three selectors of parse_price find in it, in order.
Pages ==
    { <<El(Text90), NoEl, NoEl>>,
      <<NoEl, El(Text8999), NoEl>>,
      <<El(TextNotNumeric), El(<<>>), El(Text90)>>,
      <<El(TextThousands), NoEl, NoEl>>,
      <<El(TextZero), NoEl, NoEl>>,
      <<El(TextNegative), NoEl, NoEl>>,
      <<El(TextSymbolOnly), El(Text90), NoEl>>,
      <<NoEl, NoEl, NoEl>> }

NoPage == <<NoEl, NoEl, NoEl>>

\* text.replace("€", "").replace(",", ".")
Normalize(text) == Replace(Remove(text, "€"), ",", ".")

RECURSIVE ParseFrom(_, _)
\* The selector loop of parse_price from selector i on.
ParseFrom(html, i) ==
    IF i > Len(html) THEN ValueError
    ELSE IF html[i].el /\ html[i].text # <<>> THEN
        LET tok == SplitFirst(Normalize(html[i].text))
        IN IF tok.tag = "IndexError" THEN IndexError
           ELSE IF IsFloat(ParseFloat(tok.tok)) THEN ParseFloat(tok.tok)
           ELSE ParseFrom(html, i + 1)
    ELSE ParseFrom(html, i + 1)

parse_price(html) == ParseFrom(html, 1)

(* ---------------------------- history file ----------------------------- *)
\* One line of the file as line.split("|") sees it: the number of parts and,
\* stripped, the three parts of a record line.
Line(ts, name, price) == [n |-> 3, ts |-> ts, name |-> name, price |-> price]

GarbageLine == [n |-> 1, ts |-> 0, name |-> "", price |-> <<>>]

CorruptLines == {GarbageLine} \cup {Line(0, PRODUCTS[i], TextNotNumeric) : i \in 1..NumProducts}

RECURSIVE ScanReversed(_, _, _)
\* for line in reversed(lines): the first line of three parts, of this
\* product, whose price parses; None when the loop ends.
ScanReversed(ls, product_name, i) ==
    IF i = 0 THEN None
    ELSE IF ls[i].n = 3 /\ ls[i].name = product_name /\ IsFloat(ParseFloat(ls[i].price))
         THEN ParseFloat(ls[i].price)
         ELSE ScanReversed(ls, product_name, i - 1)

RECURSIVE ScanForward(_, _, _)
ScanForward(ls, product_name, i) ==
    IF i > Len(ls) THEN None
    ELSE IF ls[i].n = 3 /\ ls[i].name = product_name /\ IsFloat(ParseFloat(ls[i].price))
         THEN ParseFloat(ls[i].price)
         ELSE ScanForward(ls, product_name, i + 1)

\* A plausible slip: the loop without reversed() returns the oldest record.
load_first_price(f, ls, product_name) ==
    IF f = "absent" THEN None
    ELSE IF f = "unreadable" THEN OSError
    ELSE ScanForward(ls, product_name, 1)

load_last_price(f, ls, product_name) ==
    IF f = "absent" THEN None
    ELSE IF f = "unreadable" THEN OSError
    ELSE ScanReversed(ls, product_name, Len(ls))

\* The line save_price writes: f"{timestamp} | {product_name} | {price}\n".
SavedLine(timestamp, product_name, price) == Line(timestamp, product_name, FloatStr(price.val))

(* ---------------------------- e-mail ----------------------------------- *)
\* A plausible slip: the delivery is not wrapped in try/except.
send_email_raises(credentials, delivered) ==
    IF ~credentials THEN "skipped"
    ELSE IF delivered THEN "sent" ELSE "raised"

\* send_email: "skipped" without credentials, else "sent" or "failed";
\* the exception of a failed delivery is caught inside.
send_email(credentials, delivered) ==
    IF ~credentials THEN "skipped"
    ELSE IF delivered THEN "sent" ELSE "failed"

\* A plausible slip: <= for <.
PriceDroppedOrEqual(diff) == diff <= 0

\* if diff < 0
PriceDropped(diff) == diff < 0

(* ---------------------------- state ------------------------------------ *)
VARIABLES
    pc,             \* where main is: start, fetch, parse, compare, notify, save, next, done, crashed
    idx,            \* index of the product being checked
    clock,          \* number of the run, used as the timestamp
    file,           \* PRICE_FILE: absent, ok or unreadable
    lines,          \* the lines of PRICE_FILE
    creds,          \* SENDER_EMAIL and SENDER_PASS are both set
    html,           \* what fetch_html returned, or the exception it raised
    current_price,  \* what parse_price returned, or the exception it raised
    last_price,     \* what load_last_price returned
    mail,           \* outcome of send_email in this check: none, skipped, failed, sent
    wrote,          \* save_price wrote its line in this check
    before,         \* the lines of PRICE_FILE when this check began
    trace,          \* the steps this check has taken
    aborted,        \* the products whose check this run gave up (continue)
    undelivered     \* the products whose alert this run did not deliver

vars == <<pc, idx, clock, file, lines, creds, html, current_price, last_price,
          mail, wrote, before, trace, aborted, undelivered>>

name == PRODUCTS[idx]

Fetched(page) == [tag |-> "html", els |-> page]

FetchFailed == [tag |-> "RequestError", els |-> NoPage]

NotFetched == [tag |-> "None", els |-> NoPage]

\* The local variables of one iteration of the loop, before it runs.
FreshCheck ==
    /\ html' = NotFetched
    /\ current_price' = None
    /\ last_price' = None
    /\ mail' = "none"
    /\ wrote' = FALSE
    /\ before' = lines
    /\ trace' = <<>>

Init ==
    /\ pc = "start"
    /\ idx = 1
    /\ clock = 0
    /\ file = "absent"
    /\ lines = <<>>
    /\ creds = FALSE
    /\ html = NotFetched
    /\ current_price = None
    /\ last_price = None
    /\ mail = "none"
    /\ wrote = FALSE
    /\ before = <<>>
    /\ trace = <<>>
    /\ aborted = {}
    /\ undelivered = {}

(* ---------------------------- main ------------------------------------- *)
\* The process is started (by the scheduler) and main enters its loop.
StartRun ==
    /\ pc = "start"
    /\ clock < MaxRuns
    /\ Len(lines) + NumProducts <= MaxLines
    /\ pc' = "fetch"
    /\ idx' = 1
    /\ clock' = clock + 1
    /\ FreshCheck
    /\ aborted' = {}
    /\ undelivered' = {}
    /\ UNCHANGED <<file, lines, creds>>

\* html = fetch_html(url): a page, or an exception (network, status).
Fetch ==
    /\ pc = "fetch"
    /\ \E r \in {FetchFailed} \cup {Fetched(p) : p \in Pages} :
        /\ html' = r
        /\ pc' = IF r.tag = "html" THEN "parse" ELSE "next"
        /\ aborted' = IF r.tag = "html" THEN aborted ELSE aborted \cup {idx}
    /\ trace' = Append(trace, "Fetching")
    /\ UNCHANGED <<idx, clock, file, lines, creds, current_price, last_price, mail, wrote, before, undelivered>>

\* current_price = parse_price(html); any exception: continue.
Parse ==
    /\ pc = "parse"
    /\ LET r == parse_price(html.els)
       IN /\ current_price' = r
          /\ pc' = IF IsFloat(r) THEN "compare" ELSE "next"
          /\ aborted' = IF IsFloat(r) THEN aborted ELSE aborted \cup {idx}
    /\ trace' = Append(trace, "Extracting")
    /\ UNCHANGED <<idx, clock, file, lines, creds, html, last_price, mail, wrote, before, undelivered>>

\* Where main goes after load_last_price returned last for the price cur.
AfterCompare(last, cur) ==
    IF ~IsFloat(last) /\ last # None THEN "crashed"
    ELSE IF last # None /\ PriceDropped(cur.val - last.val) THEN "notify"
    ELSE "save"

\* last_price = load_last_price(name) and the comparison.
Compare ==
    /\ pc = "compare"
    /\ LET last == load_last_price(file, lines, name)
       IN /\ last_price' = last
          /\ pc' = AfterCompare(last, current_price)
    /\ trace' = Append(trace, "Comparing")
    /\ UNCHANGED <<idx, clock, file, lines, creds, html, current_price, mail, wrote, before, aborted, undelivered>>

\* A plausible slip: the alert branch ends the iteration, so the record of
\* a dropped price is never saved.
AfterNotifySkipsSave(m) == IF m = "raised" THEN "crashed" ELSE "next"

\* Where main goes after send_email: on to save_price, unless it raised.
AfterNotify(m) == IF m = "raised" THEN "crashed" ELSE "save"

\* send_email(subject, body)
Notify ==
    /\ pc = "notify"
    /\ \E delivered \in BOOLEAN :
        /\ mail' = send_email(creds, delivered)
        /\ pc' = AfterNotify(send_email(creds, delivered))
        /\ undelivered' = IF send_email(creds, delivered) \in {"skipped", "failed"}
                          THEN undelivered \cup {idx} ELSE undelivered
    /\ trace' = Append(trace, "Notifying")
    /\ UNCHANGED <<idx, clock, file, lines, creds, html, current_price, last_price, wrote, before, aborted>>

\* save_price(name, current_price): the append, or the caught exception.
Save ==
    /\ pc = "save"
    /\ \E written \in BOOLEAN :
        /\ wrote' = written
        /\ lines' = IF written THEN Append(lines, SavedLine(clock, name, current_price))
                    ELSE lines
        /\ file' = IF written /\ file = "absent" THEN "ok" ELSE file
    /\ pc' = "next"
    /\ trace' = Append(trace, "Persisting")
    /\ UNCHANGED <<idx, clock, creds, html, current_price, last_price, mail, before, aborted, undelivered>>

\* The for loop takes the next product, or main prints its last line.
Advance ==
    /\ pc = "next"
    /\ IF idx < NumProducts
       THEN /\ pc' = "fetch"
            /\ idx' = idx + 1
            /\ FreshCheck
       ELSE /\ pc' = "done"
            /\ UNCHANGED <<idx, html, current_price, last_price, mail, wrote, before, trace>>
    /\ UNCHANGED <<clock, file, lines, creds, aborted, undelivered>>

\* The process ends: normally, or with the traceback of an uncaught exception.
Exit ==
    /\ pc \in {"done", "crashed"}
    /\ pc' = "start"
    /\ idx' = 1
    /\ FreshCheck
    /\ aborted' = {}
    /\ undelivered' = {}
    /\ UNCHANGED <<clock, file, lines, creds>>

(* ---------------------------- environment ------------------------------ *)
\* Between runs the secrets are set or removed.
SetCredentials ==
    /\ pc = "start"
    /\ creds' = ~creds
    /\ UNCHANGED <<pc, idx, clock, file, lines, html, current_price, last_price,
                   mail, wrote, before, trace, aborted, undelivered>>

\* Between runs the file becomes unreadable (permissions, undecodable
\* bytes) or readable again.
Chmod ==
    /\ pc = "start"
    /\ file # "absent"
    /\ file' = IF file = "ok" THEN "unreadable" ELSE "ok"
    /\ UNCHANGED <<pc, idx, clock, lines, creds, html, current_price, last_price,
                   mail, wrote, before, trace, aborted, undelivered>>

\* Between runs a line that is no record gets into the file (one at most).
Tamper ==
    /\ pc = "start"
    /\ Len(lines) < MaxLines
    /\ \A i \in 1..Len(lines) : lines[i] \notin CorruptLines
    /\ \E l \in CorruptLines : lines' = Append(lines, l)
    /\ file' = IF file = "absent" THEN "ok" ELSE file
    /\ before' = lines'
    /\ UNCHANGED <<pc, idx, clock, creds, html, current_price, last_price, mail, wrote, trace, aborted, undelivered>>

Step == Fetch \/ Parse \/ Compare \/ Notify \/ Save \/ Advance

Next == StartRun \/ Step \/ Exit \/ SetCredentials \/ Chmod \/ Tamper

Spec == Init /\ [][Next]_vars

(* ---------------------------- properties ------------------------------ *)
InTrace(step) == \E i \in 1..Len(trace) : trace[i] = step

IsPrefix(s, t) == Len(s) <= Len(t) /\ SubSeq(t, 1, Len(s)) = s

\* The record this check is to append.
NewRecord == SavedLine(clock, name, current_price)

\* The records of a product in a history, by position.
RecordsOf(ls, product) ==
    {i \in 1..Len(ls) : ls[i].n = 3 /\ ls[i].name = product /\ IsFloat(ParseFloat(ls[i].price))}

\* loadLast of the history store: a prior record exists.
HasPrior(f, ls, product) == f = "ok" /\ RecordsOf(ls, product) # {}

\* The price of the most recently appended record of the product.
PriorPrice(ls, product) ==
    LET last == CHOOSE i \in RecordsOf(ls, product) : \A j \in RecordsOf(ls, product) : j <= i
    IN ParseFloat(ls[last].price).val

\* This check found the price lower than the last recorded one.
Dropped == HasPrior(file, before, name) /\ current_price.val < PriorPrice(before, name)

\* The notifier did not deliver: no credentials, or the delivery failed.
NotDelivered == mail \in {"skipped", "failed"}

C2_NotifyIffDrop ==
    (pc \in {"save", "next", "done", "crashed"} /\ IsFloat(current_price)) =>
        ((mail # "none") <=> Dropped)

\* A notification was triggered by a drop.
C2_Witness == pc = "save" /\ mail = "sent" /\ Dropped

\* C3 (as stated): whatever checks failed in Fetching or Extracting, the
\* later products are still checked and the run reaches its normal
\* completion: it never ends in an uncaught exception.
C3_AsStated == aborted # {} => pc # "crashed"

\* C4 (as stated): with the history file absent or unreadable, loading the
\* last price yields no prior record and raises nothing.
C4_AsStated ==
    (InTrace("Comparing") /\ file \in {"absent", "unreadable"}) =>
        (last_price = None /\ pc # "crashed")

C6_AsStated ==
    (pc \in {"next", "done", "crashed"} /\ IsFloat(current_price)) =>
        lines = Append(before, NewRecord)

\* The cap N of C7: the program has no such setting.
RetentionCap == 2

\* C7 (as stated): the history never holds more than the N most recent
\* records.
C7_AsStated == Cardinality({i \in 1..Len(lines) : lines[i] \notin CorruptLines}) <= RetentionCap

\* C8 (as stated): from the text "1.234,56 €" extraction returns 1234.56.
C8_AsStated ==
    (InTrace("Extracting") /\ html.els[1] = El(TextThousands)) =>
        current_price = Float(123456)

OrderDrop == <<"Fetching", "Extracting", "Comparing", "Notifying", "Persisting">>

OrderNoDrop == <<"Fetching", "Extracting", "Comparing", "Persisting">>

\* C9 (as stated): whenever a notification is sent, the new record has
\* been persisted before.
C9_AsStated ==
    \A i \in 1..Len(trace) :
        trace[i] = "Notifying" => \E j \in 1..(i - 1) : trace[j] = "Persisting"

\* C9 (amended): the steps of a check occur in the order Fetching,
\* Extracting, Comparing, then (only on a drop) Notifying, then Persisting,
\* then Done: a notification is sent before the new record is persisted.
C9_StepOrder ==
    /\ IsPrefix(trace, OrderDrop) \/ IsPrefix(trace, OrderNoDrop)
    /\ InTrace("Notifying") => Dropped
    /\ (trace # <<>> /\ trace[Len(trace)] = "Notifying") => (lines = before /\ ~wrote)
    /\ (pc \in {"next", "done"} /\ IsFloat(current_price)) => trace \in {OrderDrop, OrderNoDrop}
    /\ InTrace("Persisting") => pc \in {"next", "done"}

\* A check that notified, then persisted.
C9_Witness == pc = "next" /\ trace = OrderDrop /\ wrote

\* C10 (as stated): every record of the history has a price > 0.
C10_AsStated ==
    \A i \in 1..Len(lines) :
        (lines[i].n = 3 /\ IsFloat(ParseFloat(lines[i].price))) =>
            ParseFloat(lines[i].price).val > 0

====
